---- MODULE Spec2Model ----
(***************************************************************************)
(* A model of HostHeaderFuzzer.py: wordlist cleaning and caching, the      *)
(* sequential mode fan-out of run_fuzzing, and the consolidation of the    *)
(* per-mode result files, the target URL and the executor's command line.  *)
(*                                                                         *)
(* Six specifications share the variables below:                           *)
(*   Spec             one run of main()                                    *)
(*   SpecConsolidate  _consolidate_results over bounded result files       *)
(*   SpecClean        the cleaning step of _download_default_wordlist      *)
(*   SpecCache        two runs of _download_default_wordlist on one cache  *)
(*   SpecUrl          __init__ / _validate_url over bounded target URLs    *)
(*   SpecBuild        _build_ffuf_command over bounded option strings      *)
(***************************************************************************)
EXTENDS Integers, Sequences, FiniteSets, TLC

VARIABLES
    \* ---- one run of main() ----
    pc,                      \* position of main() / run_fuzzing()
    mode,                    \* index in Modes of the mode being run (0: none)
    args,                    \* main's args: the wordlist arguments as given
    netloc,                  \* urlparse(url).netloc of the target
    ffuf_found,              \* whether shutil.which(self.ffuf_path) finds it
    static_wordlist_path,    \* self.static_wordlist_path
    subdomain_wordlist_path, \* self.subdomain_wordlist_path
    final_output_path,       \* self.final_output_path
    static_modes,            \* run_fuzzing's local static_modes
    subdomain_mode,          \* run_fuzzing's local subdomain_mode
    invoked,                 \* the modes _run_ffuf was called for, in order
    proc,                    \* per mode: the executor process
    files,                   \* per mode: the file <output base>_<mode>.json
    temp_ffuf_output_files,  \* self._temp_ffuf_output_files
    final_file,              \* the file <output base>_final.json
    exit_code,               \* the process's exit status (-1: still running)
    raised,                  \* the exception leaving run_fuzzing, if any
    overlap,                 \* an executor was spawned while another was running
    consolidated,            \* "no", or how _consolidate_results ran: "alone",
                             \* or "active" (beside a live executor)
    \* ---- the default wordlist and its cache file ----
    cache,                   \* the file static_wordlist_cleaned.txt
    raw_text,                \* response.text
    cleaned,                 \* the local cleaned_lines of line 79
    recleaned,               \* the cleaning step applied to the cache file
    dpc,                     \* per concurrent run: position in _download_default_wordlist
    pending,                 \* per concurrent run: text not yet written to the file
    observed,                \* per concurrent run: what the reused cache held
    \* ---- the target and the executor's command line ----
    url,                     \* the target_url argument of __init__
    bstate,                  \* "new", "rejected" (sys.exit), "accepted", "built"
    target_url,              \* self.target_url
    target_domain,           \* self.target_domain
    ffuf_options,            \* self.ffuf_options
    cmds                     \* per mode: the cmd _build_ffuf_command returns

runVars == <<pc, mode, args, netloc, ffuf_found, static_wordlist_path,
             subdomain_wordlist_path, final_output_path, static_modes,
             subdomain_mode, invoked, proc, files, temp_ffuf_output_files,
             final_file, exit_code, raised, overlap,
             consolidated>>
dlVars == <<raw_text, cleaned, recleaned, dpc, pending, observed>>
buildVars == <<url, bstate, target_url, target_domain, ffuf_options, cmds>>
vars == <<runVars, cache, dlVars, buildVars>>

(***************************************************************************)
(* Text: a string is a sequence of one-character strings.                  *)
(***************************************************************************)
NL == "\n"
Marker == <<".", "%", "s">>
Whitespace == {" "}

\* The characters raw texts are drawn from.
Chars == {".", "%", "s", "a", " ", NL}

\* Bound: the length of a downloaded text.
MaxTextLen == 6

RECURSIVE TextsUpTo(_)
TextsUpTo(n) ==
    IF n = 0 THEN {<<>>}
    ELSE LET shorter == TextsUpTo(n - 1)
         IN shorter \cup {Append(t, c) : t \in {u \in shorter : Len(u) = n - 1}, c \in Chars}

RawTexts == TextsUpTo(MaxTextLen)

StartsWith(s, p) == Len(s) >= Len(p) /\ SubSeq(s, 1, Len(p)) = p
EndsWith(s, p) == Len(s) >= Len(p) /\ SubSeq(s, Len(s) - Len(p) + 1, Len(s)) = p
Drop(s, n) == SubSeq(s, n + 1, Len(s))

\* str.splitlines(): the lines of a text, the line breaks removed; a final
\* line break opens no further line.
RECURSIVE splitlines(_)
splitlines(text) ==
    IF text = <<>> THEN <<>>
    ELSE LET brk == {i \in 1..Len(text) : text[i] = NL}
         IN IF brk = {} THEN <<text>>
            ELSE LET i == CHOOSE j \in brk : \A k \in brk : j <= k
                 IN <<SubSeq(text, 1, i - 1)>> \o splitlines(Drop(text, i))

\* str.replace(".%s", ""): every non-overlapping occurrence, left to right.
RECURSIVE replace_marker(_)
replace_marker(s) ==
    IF Len(s) < Len(Marker) THEN s
    ELSE IF StartsWith(s, Marker) THEN replace_marker(Drop(s, Len(Marker)))
    ELSE <<Head(s)>> \o replace_marker(Tail(s))

RECURSIVE lstrip(_)
lstrip(s) == IF s /= <<>> /\ Head(s) \in Whitespace THEN lstrip(Tail(s)) ELSE s

RECURSIVE rstrip(_)
rstrip(s) ==
    IF s /= <<>> /\ s[Len(s)] \in Whitespace THEN rstrip(SubSeq(s, 1, Len(s) - 1)) ELSE s

\* str.strip()
strip(s) == rstrip(lstrip(s))

\* "\n".join(lines)
RECURSIVE join(_)
join(lines) ==
    IF lines = <<>> THEN <<>>
    ELSE IF Len(lines) = 1 THEN lines[1]
    ELSE lines[1] \o <<NL>> \o join(Tail(lines))

SelectLines(lines) == SelectSeq(lines, LAMBDA l : strip(l) /= <<>>)

clean_line(line) == strip(replace_marker(line))

\* Line 79: [line.replace(".%s", "").strip() for line in text.splitlines() if line.strip()]
cleaned_lines(text) ==
    LET kept == SelectLines(splitlines(text))
    IN [i \in 1..Len(kept) |-> clean_line(kept[i])]

\* The cache file: absent, or present with the text written so far.
NoFile == [exists |-> FALSE, text |-> <<>>]
FileOf(text) == [exists |-> TRUE, text |-> text]

(***************************************************************************)
(* Result records.  A JSON object is a TLA+ record whose domain is the set *)
(* of keys it carries; a JSON value that is no object is BadRecord.  A     *)
(* host is a sequence of code points, compared as Python compares str.     *)
(***************************************************************************)
Modes == <<"static", "static_append", "subdomain">>
ModeIdx == 1..3

\* Python's None, the value dict.get gives for a key that is absent or null.
None == -1

Statuses == {200, 301}
Lengths == {100}
Hosts == {<<1>>, <<1, 2>>, <<2>>}

BadRecord == [bad |-> TRUE]

\* The records result files are drawn from under SpecConsolidate: complete
\* ones, and one each without a host, without a status, without a length,
\* with a second length, and that is no object.
Records ==
    {[status |-> s, length |-> l, host |-> h] : s \in Statuses, l \in Lengths, h \in Hosts}
    \cup {[status |-> 200, length |-> 100],
          [length |-> 100, host |-> <<1>>], [status |-> 200, host |-> <<2>>],
          [status |-> 200, length |-> 50, host |-> <<1>>], BadRecord}

\* Bound: the records of all tracked result files together (SpecConsolidate).
MaxRecords == 3

\* Bound: the records of one result file an executor writes during a run (Spec).
MaxRunRecords == 1

RECURSIVE SeqsUpTo(_, _)
SeqsUpTo(S, n) ==
    IF n = 0 THEN {<<>>}
    ELSE LET shorter == SeqsUpTo(S, n - 1)
         IN shorter \cup {Append(t, c) : t \in {u \in shorter : Len(u) = n - 1}, c \in S}

\* A result file on disk: missing, of size zero, not a parsable document with
\* a results sequence, or a document holding results.
MissingFile == [kind |-> "missing", results |-> <<>>]
EmptyFile == [kind |-> "empty", results |-> <<>>]
GarbageFile == [kind |-> "garbage", results |-> <<>>]
Doc(rs) == [kind |-> "doc", results |-> rs]

\* os.path.getsize(path) > 0 (line 126); getsize raises on a missing file,
\* which the except of line 128 turns into "not tracked".
getsize_positive(file) == file.kind \in {"garbage", "doc"}

IsDict(r) == "bad" \notin DOMAIN r

\* dict.get(key, default)
Get(r, k, d) == IF k \in DOMAIN r THEN r[k] ELSE d

\* Line 143
key_of(r) == <<Get(r, "status", None), Get(r, "length", None)>>

\* Line 144: None not in key and key not in seen
keep_record_without_none(r, seen) ==
    LET key == key_of(r)
    IN key \notin seen
keep_record_without_seen(r, seen) ==
    LET key == key_of(r)
    IN key[1] /= None /\ key[2] /= None
keep_record(r, seen) ==
    LET key == key_of(r)
    IN key[1] /= None /\ key[2] /= None /\ key \notin seen

\* Lines 142-146 over the records of one file.  A value that is no object
\* raises at r.get, which ends the scan of this file (line 147) and keeps
\* what was appended before.
RECURSIVE scan_records(_, _)
scan_records(rs, acc) ==
    IF rs = <<>> THEN acc
    ELSE LET r == Head(rs)
         IN IF ~IsDict(r) THEN acc
            ELSE IF keep_record(r, acc.seen)
                 THEN scan_records(Tail(rs),
                        [results |-> Append(acc.results, r),
                         seen |-> acc.seen \cup {key_of(r)}])
                 ELSE scan_records(Tail(rs), acc)

\* Lines 139-148 for one file: open or json.load raising skips the file.
scan_file(file, acc) ==
    IF file.kind = "doc" THEN scan_records(file.results, acc) ELSE acc

\* Lines 138-148: the tracked files in list order.
RECURSIVE scan_files(_, _, _)
scan_files(tracked, fs, acc) ==
    IF tracked = <<>> THEN acc
    ELSE scan_files(Tail(tracked), fs, scan_file(fs[Head(tracked)], acc))

\* Python's str comparison a < b: lexicographic by code point.
RECURSIVE StrLess(_, _)
StrLess(a, b) ==
    IF b = <<>> THEN FALSE
    ELSE IF a = <<>> THEN TRUE
    ELSE IF Head(a) /= Head(b) THEN Head(a) < Head(b)
    ELSE StrLess(Tail(a), Tail(b))

\* Line 151: the sort key (x.get("status", 0), x.get("host", ""))
sort_status(x) == Get(x, "status", 0)
sort_host(x) == Get(x, "host", <<>>)

\* Tuple comparison of two sort keys: key(x) < key(y)
KeyLessByStatusOnly(x, y) == sort_status(x) < sort_status(y)
KeyLess(x, y) ==
    \/ sort_status(x) < sort_status(y)
    \/ sort_status(x) = sort_status(y) /\ StrLess(sort_host(x), sort_host(y))

\* list.sort is stable: an element goes after every element not greater.
RECURSIVE insert_sorted(_, _)
insert_sorted(r, sorted) ==
    IF sorted = <<>> THEN <<r>>
    ELSE IF KeyLess(r, Head(sorted)) THEN <<r>> \o sorted
    ELSE <<Head(sorted)>> \o insert_sorted(r, Tail(sorted))

RECURSIVE sort_results(_)
sort_results(rs) ==
    IF rs = <<>> THEN <<>>
    ELSE insert_sorted(rs[Len(rs)], sort_results(SubSeq(rs, 1, Len(rs) - 1)))

\* The final report file: absent, or holding {"results": [...]}.
NoReport == [exists |-> FALSE, results |-> <<>>]
Report(rs) == [exists |-> TRUE, results |-> rs]

\* Lines 135-148: the deduplicated records, in scan order.
collected(tracked, fs) ==
    scan_files(tracked, fs, [results |-> <<>>, seen |-> {}]).results

\* Lines 131-158: the report _consolidate_results leaves when the write
\* succeeds; `old` is the report file as it was.
consolidate_results_always_writing(out, tracked, fs, old) ==
    IF ~out \/ tracked = <<>> THEN old
    ELSE Report(sort_results(collected(tracked, fs)))
consolidate_results(out, tracked, fs, old) ==
    IF ~out \/ tracked = <<>> THEN old
    ELSE LET results == collected(tracked, fs)
         IN IF results = <<>> THEN old ELSE Report(sort_results(results))

(***************************************************************************)
(* One run of main().                                                      *)
(***************************************************************************)
\* A wordlist path is "none" (no argument), "file" (names a regular file),
\* "nofile" (names no regular file) or "cache" (the default list's save_path).
PathArgs == {"none", "file", "nofile"}

\* The remote list's text in a run, and a cache an earlier run left.
RunText == <<"a", NL, "s", ".", "%", "s">>

NoProc == [state |-> "none", rc |-> None, out |-> FALSE, waited |-> FALSE]

\* The records the executor reports in mode m: the host names the mode.
RunRecords(m) == {[status |-> s, length |-> 100, host |-> <<m>>] : s \in Statuses}

\* What an executor given -o may leave at its output path when it exits.
RunOutputs(m) ==
    {MissingFile, EmptyFile} \cup {Doc(rs) : rs \in SeqsUpTo(RunRecords(m), MaxRunRecords)}

Running(m) == proc[m].state = "running"
AnyRunning == \E m \in ModeIdx : Running(m)

InitRun ==
    /\ pc = "construct"
    /\ mode = 0
    /\ args \in [static_wordlist : PathArgs, subdomain_wordlist : PathArgs]
    /\ netloc \in {"", "example.com"}
    /\ ffuf_found \in BOOLEAN
    /\ static_wordlist_path = args.static_wordlist
    /\ subdomain_wordlist_path = args.subdomain_wordlist
    /\ final_output_path \in {"none", "out"}
    /\ static_modes = FALSE
    /\ subdomain_mode = FALSE
    /\ invoked = <<>>
    /\ proc = [m \in ModeIdx |-> NoProc]
    /\ files = [m \in ModeIdx |-> MissingFile]
    /\ temp_ffuf_output_files = <<>>
    /\ final_file = NoReport
    /\ exit_code = -1
    /\ raised = "none"
    /\ overlap = FALSE
    /\ consolidated = "no"

\* The variables of the command-line specifications, at rest.
IdleBuild ==
    /\ url = <<>>
    /\ bstate = "idle"
    /\ target_url = <<>>
    /\ target_domain = <<>>
    /\ ffuf_options = <<>>
    /\ cmds = <<>>

\* The variables of the download specifications, at rest.
IdleDownload ==
    /\ recleaned = [done |-> FALSE, lines |-> <<>>]
    /\ dpc = <<>>
    /\ pending = <<>>
    /\ observed = <<>>

Init ==
    /\ InitRun
    /\ IdleBuild
    /\ IdleDownload
    /\ raw_text = RunText
    /\ cleaned = <<>>
    /\ cache \in {NoFile, FileOf(<<"a">>)}

\* Lines 56-62 (called at line 43): an empty netloc ends the process with
\* status 1, before main's try block is entered.
Construct ==
    /\ pc = "construct"
    /\ IF netloc = ""
       THEN pc' = "exited" /\ exit_code' = 1
       ELSE pc' = "check_ffuf" /\ UNCHANGED exit_code
    /\ UNCHANGED <<mode, args, netloc, ffuf_found, static_wordlist_path,
                   subdomain_wordlist_path, final_output_path, static_modes,
                   subdomain_mode, invoked, proc, files, temp_ffuf_output_files,
                   final_file, raised, overlap, consolidated>>
    /\ UNCHANGED <<cache, dlVars, buildVars>>

\* Lines 64-68 (called at line 161): sys.exit(1) raises SystemExit inside
\* main's try, so cleanup still runs.
CheckFfufSkipped ==
    /\ pc = "check_ffuf"
    /\ pc' = IF static_wordlist_path = "none" THEN "download" ELSE "plan"
    /\ UNCHANGED <<mode, args, netloc, ffuf_found, static_wordlist_path,
                   subdomain_wordlist_path, final_output_path, static_modes,
                   subdomain_mode, invoked, proc, files, temp_ffuf_output_files,
                   final_file, exit_code, raised, overlap, consolidated>>
    /\ UNCHANGED <<cache, dlVars, buildVars>>
CheckFfuf ==
    /\ pc = "check_ffuf"
    /\ IF ~ffuf_found
       THEN pc' = "cleanup" /\ raised' = "SystemExit"
       ELSE /\ pc' = IF static_wordlist_path = "none" THEN "download" ELSE "plan"
            /\ UNCHANGED raised
    /\ UNCHANGED <<mode, args, netloc, ffuf_found, static_wordlist_path,
                   subdomain_wordlist_path, final_output_path, static_modes,
                   subdomain_mode, invoked, proc, files, temp_ffuf_output_files,
                   final_file, exit_code, overlap, consolidated>>
    /\ UNCHANGED <<cache, dlVars, buildVars>>

\* Lines 70-85 (called at lines 163-164), in a run that has the cache to
\* itself: reuse the cache file, or fetch, clean and save, or give None.
DownloadDefault ==
    /\ pc = "download"
    /\ \/ /\ cache.exists
          /\ static_wordlist_path' = "cache"
          /\ UNCHANGED <<cache, cleaned>>
       \/ /\ ~cache.exists
          /\ static_wordlist_path' = "none"
          /\ UNCHANGED <<cache, cleaned>>
       \/ /\ ~cache.exists
          /\ cleaned' = cleaned_lines(raw_text)
          /\ cache' = FileOf(join(cleaned'))
          /\ static_wordlist_path' = "cache"
    /\ pc' = "plan"
    /\ UNCHANGED <<mode, args, netloc, ffuf_found, subdomain_wordlist_path,
                   final_output_path, static_modes, subdomain_mode, invoked, proc,
                   files, temp_ffuf_output_files, final_file, exit_code, raised,
                   overlap, consolidated>>
    /\ UNCHANGED <<raw_text, recleaned, dpc, pending, observed, buildVars>>

\* os.path.isfile(path) if path else False (lines 166-167)
isfile_unchecked(path) == path /= "none"
isfile(path) == path = "file" \/ (path = "cache" /\ cache.exists)

\* The mode that follows mode m in run_fuzzing (lines 169-176); 0: none.
next_mode(m) ==
    IF m = 0 THEN (IF static_modes THEN 1 ELSE IF subdomain_mode THEN 3 ELSE 0)
    ELSE IF m = 1 THEN 2
    ELSE IF m = 2 THEN (IF subdomain_mode THEN 3 ELSE 0)
    ELSE 0

\* Control after _run_ffuf returns for mode m: the next mode's invocation, or
\* line 178.
Advance(m) ==
    /\ mode' = next_mode(m)
    /\ pc' = IF next_mode(m) = 0 THEN "consolidate" ELSE "popen"

\* Lines 166-167, and the entry into the first mode of lines 169-176.
PlanModes ==
    /\ pc = "plan"
    /\ static_modes' = isfile(static_wordlist_path)
    /\ subdomain_mode' = isfile(subdomain_wordlist_path)
    /\ mode' = IF static_modes' THEN 1 ELSE IF subdomain_mode' THEN 3 ELSE 0
    /\ pc' = IF mode' = 0 THEN "consolidate" ELSE "popen"
    /\ UNCHANGED <<args, netloc, ffuf_found, static_wordlist_path,
                   subdomain_wordlist_path, final_output_path, invoked, proc,
                   files, temp_ffuf_output_files, final_file, exit_code, raised,
                   overlap, consolidated>>
    /\ UNCHANGED <<cache, dlVars, buildVars>>

\* Lines 107-110: the invocation carries -o exactly when an output base is set.
temp_out_always == TRUE
temp_out == final_output_path /= "none"

\* Lines 171-172 / 175-176 with line 121: _run_ffuf is entered and Popen
\* either raises (caught at line 128) or starts the executor.
Popen ==
    /\ pc = "popen"
    /\ invoked' = Append(invoked, mode)
    /\ \/ /\ Advance(mode)
          /\ UNCHANGED <<proc, overlap>>
       \/ /\ proc' = [proc EXCEPT ![mode] =
                        [state |-> "running", rc |-> None, out |-> temp_out,
                         waited |-> FALSE]]
          /\ overlap' = (overlap \/ AnyRunning)
          /\ pc' = "stream"
          /\ UNCHANGED mode
    /\ UNCHANGED <<args, netloc, ffuf_found, static_wordlist_path,
                   subdomain_wordlist_path, final_output_path, static_modes,
                   subdomain_mode, files, temp_ffuf_output_files, final_file,
                   exit_code, raised, consolidated>>
    /\ UNCHANGED <<cache, dlVars, buildVars>>

\* Lines 122-124 raising (a read or write error while streaming): line 128
\* catches it and _run_ffuf returns; proc.wait() of line 125 is not reached.
StreamErrorUncaught ==
    /\ pc = "stream"
    /\ raised' = "Exception"
    /\ pc' = "cleanup"
    /\ UNCHANGED <<mode, args, netloc, ffuf_found, static_wordlist_path,
                   subdomain_wordlist_path, final_output_path, static_modes,
                   subdomain_mode, invoked, proc, files, temp_ffuf_output_files,
                   final_file, exit_code, overlap, consolidated>>
    /\ UNCHANGED <<cache, dlVars, buildVars>>
StreamError ==
    /\ pc = "stream"
    /\ Advance(mode)
    /\ UNCHANGED <<args, netloc, ffuf_found, static_wordlist_path,
                   subdomain_wordlist_path, final_output_path, static_modes,
                   subdomain_mode, invoked, proc, files, temp_ffuf_output_files,
                   final_file, exit_code, raised, overlap,
                   consolidated>>
    /\ UNCHANGED <<cache, dlVars, buildVars>>

\* The executor started at line 121 ends: an exit status, and, when it was
\* given -o, whatever it left at its output path.
ProcExit(m) ==
    /\ Running(m)
    /\ \E rc \in {0, 1} :
         proc' = [proc EXCEPT ![m].state = "exited", ![m].rc = rc]
    /\ IF proc[m].out
       THEN \E f \in RunOutputs(m) : files' = [files EXCEPT ![m] = f]
       ELSE UNCHANGED files
    /\ UNCHANGED <<pc, mode, args, netloc, ffuf_found, static_wordlist_path,
                   subdomain_wordlist_path, final_output_path, static_modes,
                   subdomain_mode, invoked, temp_ffuf_output_files, final_file,
                   exit_code, raised, overlap, consolidated>>
    /\ UNCHANGED <<cache, dlVars, buildVars>>

\* Line 126: proc.returncode == 0 and temp_out and os.path.getsize(temp_out) > 0
\* (a missing file makes getsize raise: caught at line 128, nothing appended).
track_ignoring_returncode(p, file) == p.out /\ getsize_positive(file)
track(p, file) == p.rc = 0 /\ p.out /\ getsize_positive(file)

\* Lines 125-127: proc.wait() returns once the executor has exited.
WaitAndTrack ==
    /\ pc = "stream"
    /\ proc[mode].state = "exited"
    /\ proc' = [proc EXCEPT ![mode].waited = TRUE]
    /\ temp_ffuf_output_files' =
         IF track(proc[mode], files[mode])
         THEN Append(temp_ffuf_output_files, mode)
         ELSE temp_ffuf_output_files
    /\ Advance(mode)
    /\ UNCHANGED <<args, netloc, ffuf_found, static_wordlist_path,
                   subdomain_wordlist_path, final_output_path, static_modes,
                   subdomain_mode, invoked, files, final_file, exit_code, raised,
                   overlap, consolidated>>
    /\ UNCHANGED <<cache, dlVars, buildVars>>

\* A KeyboardInterrupt while _run_ffuf blocks on the executor: no except
\* Exception catches it, it leaves run_fuzzing and main passes (lines 211-212).
InterruptThenConsolidate ==
    /\ pc = "stream"
    /\ raised' = "KeyboardInterrupt"
    /\ pc' = "consolidate"
    /\ UNCHANGED <<mode, args, netloc, ffuf_found, static_wordlist_path,
                   subdomain_wordlist_path, final_output_path, static_modes,
                   subdomain_mode, invoked, proc, files, temp_ffuf_output_files,
                   final_file, exit_code, overlap, consolidated>>
    /\ UNCHANGED <<cache, dlVars, buildVars>>
Interrupt ==
    /\ pc = "stream"
    /\ raised' = "KeyboardInterrupt"
    /\ pc' = "cleanup"
    /\ UNCHANGED <<mode, args, netloc, ffuf_found, static_wordlist_path,
                   subdomain_wordlist_path, final_output_path, static_modes,
                   subdomain_mode, invoked, proc, files, temp_ffuf_output_files,
                   final_file, exit_code, overlap, consolidated>>
    /\ UNCHANGED <<cache, dlVars, buildVars>>

\* Lines 131-158 (called at line 178).  The write of lines 152-158 may fail,
\* which leaves the report file as it was.
Consolidate ==
    /\ pc = "consolidate"
    /\ LET new == consolidate_results(temp_out, temp_ffuf_output_files, files,
                                      final_file)
       IN \/ final_file' = new
          \/ new /= final_file /\ final_file' = final_file
    /\ consolidated' = IF AnyRunning THEN "active" ELSE "alone"
    /\ pc' = "cleanup"
    /\ UNCHANGED <<mode, args, netloc, ffuf_found, static_wordlist_path,
                   subdomain_wordlist_path, final_output_path, static_modes,
                   subdomain_mode, invoked, proc, files, temp_ffuf_output_files,
                   exit_code, raised, overlap>>
    /\ UNCHANGED <<cache, dlVars, buildVars>>

\* Lines 180-181 in main's finally (lines 213-214), then the process ends:
\* with status 0 when nothing was raised or main passed on the interrupt,
\* with status 1 when sys.exit(1) or another exception goes on.
Cleanup ==
    /\ pc = "cleanup"
    /\ temp_ffuf_output_files' = <<>>
    /\ exit_code' = IF raised \in {"none", "KeyboardInterrupt"} THEN 0 ELSE 1
    /\ pc' = "exited"
    /\ UNCHANGED <<mode, args, netloc, ffuf_found, static_wordlist_path,
                   subdomain_wordlist_path, final_output_path, static_modes,
                   subdomain_mode, invoked, proc, files, final_file, raised,
                   overlap, consolidated>>
    /\ UNCHANGED <<cache, dlVars, buildVars>>

Next ==
    \/ Construct
    \/ CheckFfuf
    \/ DownloadDefault
    \/ PlanModes
    \/ Popen
    \/ StreamError
    \/ \E m \in ModeIdx : ProcExit(m)
    \/ WaitAndTrack
    \/ Interrupt
    \/ Consolidate
    \/ Cleanup

Spec == Init /\ [][Next]_vars

(***************************************************************************)
(* _consolidate_results over bounded result files.                         *)
(***************************************************************************)
\* The lists _run_ffuf's appends can build: modes in invocation order.
TrackedLists == {<<>>, <<1>>, <<2>>, <<3>>, <<1, 2>>, <<1, 3>>, <<2, 3>>, <<1, 2, 3>>}

\* The ways to cut a sequence into n consecutive parts.
RECURSIVE Splits(_, _)
Splits(s, n) ==
    IF n = 0 THEN (IF s = <<>> THEN {<<>>} ELSE {})
    ELSE UNION {{<<SubSeq(s, 1, i)>> \o rest : rest \in Splits(Drop(s, i), n - 1)} :
                i \in 0..Len(s)}

InitConsolidate ==
    /\ pc = "consolidate"
    /\ mode = 0
    /\ args = [static_wordlist |-> "file", subdomain_wordlist |-> "file"]
    /\ netloc = "example.com"
    /\ ffuf_found = TRUE
    /\ static_wordlist_path = "file"
    /\ subdomain_wordlist_path = "file"
    /\ final_output_path = "out"
    /\ static_modes = TRUE
    /\ subdomain_mode = TRUE
    /\ invoked = <<1, 2, 3>>
    /\ proc = [m \in ModeIdx |-> NoProc]
    /\ temp_ffuf_output_files \in TrackedLists
    \* each tracked file is a document, or (for a part without records) a
    \* file json.load cannot use
    /\ \E s \in SeqsUpTo(Records, MaxRecords) :
         \E parts \in Splits(s, Len(temp_ffuf_output_files)) :
           \E fs \in [1..Len(parts) -> {Doc(<<>>), GarbageFile}] :
             /\ \A k \in 1..Len(parts) : parts[k] /= <<>> => fs[k] = Doc(<<>>)
             /\ files = [m \in ModeIdx |->
                        IF \E k \in 1..Len(parts) : temp_ffuf_output_files[k] = m
                        THEN LET k == CHOOSE k \in 1..Len(parts) :
                                        temp_ffuf_output_files[k] = m
                             IN IF parts[k] = <<>> THEN fs[k] ELSE Doc(parts[k])
                        ELSE MissingFile]
    /\ final_file = NoReport
    /\ exit_code = -1
    /\ raised = "none"
    /\ overlap = FALSE
    /\ consolidated = "no"
    /\ IdleDownload
    /\ IdleBuild
    /\ raw_text = <<>>
    /\ cleaned = <<>>
    /\ cache = NoFile

NextConsolidate == Consolidate

SpecConsolidate == InitConsolidate /\ [][NextConsolidate]_vars

(***************************************************************************)
(* The cleaning step of _download_default_wordlist, over bounded texts.    *)
(***************************************************************************)
\* The variables of a run of main(), at rest.
RunAtRest ==
    /\ pc = "idle"
    /\ mode = 0
    /\ args = [static_wordlist |-> "none", subdomain_wordlist |-> "none"]
    /\ netloc = "example.com"
    /\ ffuf_found = TRUE
    /\ static_wordlist_path = "none"
    /\ subdomain_wordlist_path = "none"
    /\ static_modes = FALSE
    /\ subdomain_mode = FALSE
    /\ invoked = <<>>
    /\ proc = [m \in ModeIdx |-> NoProc]
    /\ files = [m \in ModeIdx |-> MissingFile]
    /\ temp_ffuf_output_files = <<>>
    /\ final_file = NoReport
    /\ exit_code = -1
    /\ raised = "none"
    /\ overlap = FALSE
    /\ consolidated = "no"

IdleRun ==
    /\ RunAtRest
    /\ final_output_path = "none"

InitClean ==
    /\ IdleRun
    /\ IdleBuild
    /\ IdleDownload
    /\ raw_text \in RawTexts
    /\ cleaned = <<>>
    /\ cache = NoFile

\* Lines 79-82: clean the fetched text and write it to the cache file.
CleanAndSave ==
    /\ ~cache.exists
    /\ cleaned' = cleaned_lines(raw_text)
    /\ cache' = FileOf(join(cleaned'))
    /\ UNCHANGED <<runVars, raw_text, recleaned, dpc, pending, observed, buildVars>>

\* Line 79 applied to the text of the cache file.
Reclean ==
    /\ cache.exists
    /\ ~recleaned.done
    /\ recleaned' = [done |-> TRUE, lines |-> cleaned_lines(cache.text)]
    /\ UNCHANGED <<runVars, cache, raw_text, cleaned, dpc, pending, observed, buildVars>>

NextClean == CleanAndSave \/ Reclean

SpecClean == InitClean /\ [][NextClean]_vars

(***************************************************************************)
(* Two runs in _download_default_wordlist at once, sharing the cache file. *)
(***************************************************************************)
Runs == {1, 2}

\* The remote list's text, the same for both runs.
CacheTexts == {<<"a">>, <<"a", NL, "s">>, <<"a", ".", "%", "s", NL, "s">>}

InitCache ==
    /\ IdleRun
    /\ IdleBuild
    /\ recleaned = [done |-> FALSE, lines |-> <<>>]
    /\ dpc = [r \in Runs |-> "start"]
    /\ pending = [r \in Runs |-> <<>>]
    /\ observed = [r \in Runs |-> [read |-> FALSE, file |-> NoFile]]
    /\ raw_text \in CacheTexts
    /\ cleaned = <<>>
    /\ cache = NoFile

\* Lines 72-73: os.path.exists(save_path)
DlExists(r) ==
    /\ dpc[r] = "start"
    /\ dpc' = [dpc EXCEPT ![r] = IF cache.exists THEN "reuse" ELSE "get"]
    /\ UNCHANGED <<runVars, cache, raw_text, cleaned, recleaned, pending, observed, buildVars>>

\* Lines 76-77 raising: line 83 catches and the run gets None.
DlGetFails(r) ==
    /\ dpc[r] = "get"
    /\ dpc' = [dpc EXCEPT ![r] = "failed"]
    /\ UNCHANGED <<runVars, cache, raw_text, cleaned, recleaned, pending, observed, buildVars>>

\* Lines 76-79: the text is fetched and cleaned.
DlGet(r) ==
    /\ dpc[r] = "get"
    /\ pending' = [pending EXCEPT ![r] = join(cleaned_lines(raw_text))]
    /\ dpc' = [dpc EXCEPT ![r] = "open"]
    /\ UNCHANGED <<runVars, cache, raw_text, cleaned, recleaned, observed, buildVars>>

\* Line 80: open(save_path, "w") creates the file, or truncates it.
DlOpen(r) ==
    /\ dpc[r] = "open"
    /\ cache' = FileOf(<<>>)
    /\ dpc' = [dpc EXCEPT ![r] = "write"]
    /\ UNCHANGED <<runVars, raw_text, cleaned, recleaned, pending, observed, buildVars>>

\* Lines 81-82: the buffered text reaches the file when the with block
\* closes it (a text longer than the buffer reaches it in pieces before).
DlWriteClose(r) ==
    /\ dpc[r] = "write"
    /\ cache' = FileOf(pending[r])
    /\ dpc' = [dpc EXCEPT ![r] = "saved"]
    /\ UNCHANGED <<runVars, raw_text, cleaned, recleaned, pending, observed, buildVars>>

\* The run that reused the cache hands save_path to the executor (-w, line
\* 91), which reads the file as it is then.
UseWordlist(r) ==
    /\ dpc[r] = "reuse"
    /\ observed' = [observed EXCEPT ![r] = [read |-> TRUE, file |-> cache]]
    /\ dpc' = [dpc EXCEPT ![r] = "done"]
    /\ UNCHANGED <<runVars, cache, raw_text, cleaned, recleaned, pending, buildVars>>

NextCache ==
    \E r \in Runs :
        \/ DlExists(r)
        \/ DlGetFails(r)
        \/ DlGet(r)
        \/ DlOpen(r)
        \/ DlWriteClose(r)
        \/ UseWordlist(r)

SpecCache == InitCache /\ [][NextCache]_vars

(***************************************************************************)
(* __init__ / _validate_url and _build_ffuf_command, over bounded URLs and  *)
(* option strings.                                                         *)
(***************************************************************************)
\* A str is a sequence of characters.
HttpPrefix == <<"h", "t", "t", "p", ":", "/", "/">>
HttpsPrefix == <<"h", "t", "t", "p", "s", ":", "/", "/">>

\* The target URLs a user gives: an optional scheme prefix and a rest.
UrlChars == {"a", "8", ":", "/", "@"}
MaxUrlLen == 4
Urls == {p \o r : p \in {<<>>, HttpPrefix, HttpsPrefix},
                  r \in SeqsUpTo(UrlChars, MaxUrlLen)}

\* Lines 57-58: a URL without one of the two prefixes gets "http://".
add_scheme(u) ==
    IF StartsWith(u, HttpPrefix) \/ StartsWith(u, HttpsPrefix) THEN u
    ELSE HttpPrefix \o u

\* s.split(sep)[0]: what comes before the first sep, all of s without one.
RECURSIVE split_first(_, _)
split_first(str, sep) ==
    IF str = <<>> \/ Head(str) = sep THEN <<>>
    ELSE <<Head(str)>> \o split_first(Tail(str), sep)

\* urlparse(u).netloc of a URL that starts with http:// or https:// : what
\* follows the "//" up to the first "/" (the URLs here hold no "?" or "#").
urlparse_netloc(u) ==
    LET rest == IF StartsWith(u, HttpPrefix) THEN Drop(u, Len(HttpPrefix))
                ELSE Drop(u, Len(HttpsPrefix))
    IN split_first(rest, "/")

\* One argument of the executor's command line: the str s followed by the
\* characters v.
Arg(s, v) == [s |-> s, v |-> v]
Word(w) == Arg(w, <<>>)

\* --ffuf-options: a str of words and runs of whitespace (" ").
OptionWords == {"-mc", "-o", "-of", "-s", "-t", "404"}
MaxOptLen == 4
OptionStrings ==
    {o \in SeqsUpTo(OptionWords \cup {" "}, MaxOptLen) :
        \A i \in 1..(Len(o) - 1) : o[i] = " " \/ o[i + 1] = " "}

\* str.split(): the words, the whitespace dropped.
split(str) == SelectSeq(str, LAMBDA w : w /= " ")

\* Line 113: the tuple of option names that are filtered out.
ConflictFlags == {"-mc", "-o", "-of", "-s"}

\* Lines 112-115.
extra_opts(options) ==
    IF options = <<>> THEN <<>>
    ELSE SelectSeq(split(options), LAMBDA opt : opt \notin ConflictFlags)

\* Line 109: f"{self.final_output_path}_{mode}.json"
TempNames == <<"out_static.json", "out_static_append.json", "out_subdomain.json">>

\* Lines 96-100.
host_header(m) ==
    IF m = 2 THEN Arg("Host: FUZZ.", target_domain) ELSE Word("Host: FUZZ")

\* Lines 87-117: the cmd list of mode m.
build_ffuf_command(m) ==
    LET cmd == <<Word("ffuf"), Word("-u"), Arg("", target_url),
                 Word("-w"), Word("wordlist"),
                 Word("-mc"), Word("match_codes"), Word("-s")>>
        header == <<Word("-H"), host_header(m)>>
        output == IF temp_out
                  THEN <<Word("-o"), Word(TempNames[m]), Word("-of"), Word("json")>>
                  ELSE <<>>
        extra == extra_opts(ffuf_options)
    IN cmd \o header \o output \o [i \in 1..Len(extra) |-> Word(extra[i])]

\* Lines 43-45 with _validate_url (lines 56-62): sys.exit(1) on an empty
\* netloc, else target_url and target_domain are set.
ConstructTarget ==
    /\ bstate = "new"
    /\ LET u == add_scheme(url)
       IN IF urlparse_netloc(u) = <<>>
          THEN /\ bstate' = "rejected"
               /\ UNCHANGED <<target_url, target_domain>>
          ELSE /\ bstate' = "accepted"
               /\ target_url' = u
               /\ target_domain' = split_first(urlparse_netloc(u), ":")
    /\ UNCHANGED <<url, ffuf_options, cmds>>
    /\ UNCHANGED <<runVars, cache, dlVars>>

\* _build_ffuf_command for one mode (called at lines 171 and 175).
BuildCommand(m) ==
    /\ bstate = "accepted"
    /\ cmds[m] = <<>>
    /\ cmds' = [cmds EXCEPT ![m] = build_ffuf_command(m)]
    /\ UNCHANGED <<url, bstate, target_url, target_domain, ffuf_options>>
    /\ UNCHANGED <<runVars, cache, dlVars>>

NextBuild ==
    \/ ConstructTarget
    \/ \E m \in ModeIdx : BuildCommand(m)

\* Every URL, with an output base and no extra options.
InitUrl ==
    /\ RunAtRest
    /\ final_output_path = "out"
    /\ IdleDownload
    /\ raw_text = <<>>
    /\ cleaned = <<>>
    /\ cache = NoFile
    /\ url \in Urls
    /\ bstate = "new"
    /\ target_url = <<>>
    /\ target_domain = <<>>
    /\ ffuf_options = <<>>
    /\ cmds = [m \in ModeIdx |-> <<>>]

SpecUrl == InitUrl /\ [][NextBuild]_vars

\* Every option string, with and without an output base, for one URL.
InitBuild ==
    /\ RunAtRest
    /\ final_output_path \in {"none", "out"}
    /\ IdleDownload
    /\ raw_text = <<>>
    /\ cleaned = <<>>
    /\ cache = NoFile
    /\ url = <<"a", ":", "8">>
    /\ bstate = "new"
    /\ target_url = <<>>
    /\ target_domain = <<>>
    /\ ffuf_options \in OptionStrings
    /\ cmds = [m \in ModeIdx |-> <<>>]

SpecBuild == InitBuild /\ [][NextBuild]_vars

(***************************************************************************)
(* Properties of consolidation (SpecConsolidate).                          *)
(***************************************************************************)
\* The records of the tracked files in scan order, each with its mode.
RECURSIVE InputsOf(_, _)
InputsOf(tracked, fs) ==
    IF tracked = <<>> THEN <<>>
    ELSE LET rs == fs[Head(tracked)].results
         IN [i \in 1..Len(rs) |-> [mode |-> Head(tracked), rec |-> rs[i]]]
            \o InputsOf(Tail(tracked), fs)

Inputs == InputsOf(temp_ffuf_output_files, files)

\* Every tracked file is a document whose results are objects.
InputsWellFormed ==
    /\ \A k \in 1..Len(temp_ffuf_output_files) :
         files[temp_ffuf_output_files[k]].kind = "doc"
    /\ \A i \in 1..Len(Inputs) : IsDict(Inputs[i].rec)

HasPair(r) == "status" \in DOMAIN r /\ "length" \in DOMAIN r
SamePair(r, q) == HasPair(r) /\ HasPair(q) /\ r.status = q.status /\ r.length = q.length

ReportWritten == pc = "cleanup" /\ consolidated /= "no" /\ final_file.exists

\* C1: the final report holds at most one record per (status, length) pair,
\* and for every pair that occurs in the tracked files (scanned in list order,
\* top to bottom) the record it holds is the pair's first occurrence.
C1_FirstOccurrenceWins ==
    (ReportWritten /\ InputsWellFormed) =>
        LET out == final_file.results
        IN /\ \A i, j \in 1..Len(out) : i /= j => ~SamePair(out[i], out[j])
           /\ \A i \in 1..Len(Inputs) :
                (HasPair(Inputs[i].rec)
                 /\ \A h \in 1..(i - 1) : ~SamePair(Inputs[h].rec, Inputs[i].rec))
                => \E j \in 1..Len(out) : out[j] = Inputs[i].rec
           /\ \A j \in 1..Len(out) :
                \E i \in 1..Len(Inputs) :
                    /\ out[j] = Inputs[i].rec
                    /\ \A h \in 1..(i - 1) : ~SamePair(Inputs[h].rec, Inputs[i].rec)

\* A report written from two files that hold different records of one pair:
\* the earlier file's record is in the report, the later one's is not.
C1_Witness ==
    /\ ReportWritten
    /\ InputsWellFormed
    /\ \E i, j \in 1..Len(Inputs) :
         /\ i < j
         /\ Inputs[i].mode /= Inputs[j].mode
         /\ SamePair(Inputs[i].rec, Inputs[j].rec)
         /\ Inputs[i].rec /= Inputs[j].rec
         /\ \E k \in 1..Len(final_file.results) : final_file.results[k] = Inputs[i].rec
         /\ \A k \in 1..Len(final_file.results) : final_file.results[k] /= Inputs[j].rec

\* a <= b for str, stated by the first place where the two differ.
LexLeq(a, b) ==
    \/ /\ Len(a) <= Len(b)
       /\ \A i \in 1..Len(a) : a[i] = b[i]
    \/ \E i \in 1..Len(a) :
         /\ i <= Len(b)
         /\ \A h \in 1..(i - 1) : a[h] = b[h]
         /\ a[i] < b[i]

HostOrEmpty(r) == IF "host" \in DOMAIN r THEN r.host ELSE <<>>

\* C2: a written final report is sorted: adjacent records have ascending
\* status and, at equal status, ascending host, a missing host counting as
\* the empty string.
C2_ReportSorted ==
    ReportWritten =>
        \A i \in 1..(Len(final_file.results) - 1) :
            LET x == final_file.results[i]
                y == final_file.results[i + 1]
            IN \/ x.status < y.status
               \/ x.status = y.status /\ LexLeq(HostOrEmpty(x), HostOrEmpty(y))

\* A report of three records whose scan order was not the sorted order, with
\* two records of one status and different hosts, and one without a host.
C2_Witness ==
    /\ ReportWritten
    /\ Len(final_file.results) = 3
    /\ final_file.results /= collected(temp_ffuf_output_files, files)
    /\ \E i \in 1..2 :
         /\ final_file.results[i].status = final_file.results[i + 1].status
         /\ HostOrEmpty(final_file.results[i]) /= HostOrEmpty(final_file.results[i + 1])
    /\ \E i \in 1..3 : "host" \notin DOMAIN final_file.results[i]

(***************************************************************************)
(* Properties of a run of main() (Spec).                                   *)
(***************************************************************************)
\* The modes lines 169-176 call _run_ffuf for, in order.
PlanSeq ==
    (IF static_modes THEN <<1, 2>> ELSE <<>>) \o (IF subdomain_mode THEN <<3>> ELSE <<>>)

IsPrefix(a, b) == Len(a) <= Len(b) /\ SubSeq(b, 1, Len(a)) = a

Ended == pc = "exited"

\* The run got past construction and the executor check.
Started == netloc /= "" /\ ffuf_found

\* C3: with neither a static nor a subdomain wordlist available, the run ends
\* with a failure indication, never with a success signal, and the executor
\* is never invoked.
C3_NoInputFails ==
    (Ended /\ ~static_modes /\ ~subdomain_mode) => (exit_code /= 0 /\ invoked = <<>>)

\* The part of C3 the code keeps: no invocation without a wordlist.
C3_NoInputNoInvocation ==
    (~static_modes /\ ~subdomain_mode) => invoked = <<>>

\* C4: with only a subdomain wordlist given (no static wordlist argument),
\* only the subdomain mode is ever invoked, whatever the cache holds and
\* however the download ends.
C4_SubdomainOnly ==
    (args.static_wordlist = "none" /\ args.subdomain_wordlist /= "none")
        => \A i \in 1..Len(invoked) : invoked[i] = 3

\* C5: invocations follow the plan static, static_append, subdomain, one at a
\* time: none starts before the previous executor has exited, and
\* _consolidate_results never runs while an executor is alive.
C5_OneAtATime ==
    /\ IsPrefix(invoked, PlanSeq)
    /\ (consolidated /= "no" => invoked = PlanSeq)
    /\ ~overlap
    /\ consolidated /= "active"

\* The part of C5 the code keeps: the order and extent of the invocations.
C5_PlanOrder ==
    /\ IsPrefix(invoked, PlanSeq)
    /\ (consolidated /= "no" => invoked = PlanSeq)

\* _run_ffuf has returned for mode m (or was left by an exception).
Finished(m) ==
    /\ \E i \in 1..Len(invoked) : invoked[i] = m
    /\ ~(mode = m /\ pc \in {"popen", "stream"})

Tracked(m) == \E k \in 1..Len(temp_ffuf_output_files) : temp_ffuf_output_files[k] = m

\* The executor of mode m was waited for and exited with status zero, and
\* the file at its output path exists and is not empty.
Usable(m) ==
    /\ proc[m].waited
    /\ proc[m].state = "exited"
    /\ proc[m].rc = 0
    /\ files[m].kind \notin {"missing", "empty"}

\* The records of the final report that mode m's executor reported.
ContributedBy(m) ==
    {k \in 1..Len(final_file.results) : final_file.results[k].host = <<m>>}

\* C9: a mode's result file is handed to consolidation exactly when its
\* executor exited with status zero and its output file exists and is not
\* empty; any other mode contributes no record to the final report.
C9_TrackedIffUsable ==
    \A m \in ModeIdx :
        /\ (Finished(m) /\ pc \in {"popen", "stream", "consolidate", "cleanup"})
             => (Tracked(m) <=> Usable(m))
        /\ (pc = "cleanup" /\ ~Usable(m)) => ContributedBy(m) = {}

\* After consolidation: one mode was accepted and put a record in the report,
\* another ended with a non-zero status beside a non-empty file, a third left
\* an empty file, and neither of these is tracked.
C9_Witness ==
    /\ pc = "cleanup"
    /\ consolidated = "alone"
    /\ \E m1, m2, m3 \in ModeIdx :
         /\ Tracked(m1) /\ ContributedBy(m1) /= {}
         /\ ~Tracked(m2) /\ proc[m2].waited /\ proc[m2].rc = 1 /\ files[m2].kind = "doc"
         /\ files[m2].results /= <<>>
         /\ ~Tracked(m3) /\ proc[m3].waited /\ proc[m3].rc = 0 /\ files[m3].kind = "empty"

\* C10: a failed invocation stops nothing: in a run that started and was not
\* interrupted, every mode of the plan is invoked, consolidation runs after
\* the last one, and the run ends without a failure indication.
C10_FailureConfined ==
    (Ended /\ Started /\ raised /= "KeyboardInterrupt") =>
        /\ invoked = PlanSeq
        /\ consolidated /= "no"
        /\ exit_code = 0

\* A run that ended with status 0 after consolidation although its first
\* mode could not be spawned, its second was left by a streaming error and
\* its third exited non-zero.
C10_Witness ==
    /\ Ended
    /\ exit_code = 0
    /\ consolidated /= "no"
    /\ invoked = <<1, 2, 3>>
    /\ proc[1].state = "none"
    /\ proc[2].state /= "none" /\ ~proc[2].waited
    /\ proc[3].waited /\ proc[3].rc = 1

(***************************************************************************)
(* Properties of the cleaning step (SpecClean) and of the cache (SpecCache).*)
(***************************************************************************)
\* The tokens the cache file holds.
SavedTokens == splitlines(cache.text)

\* C6: cleaning is idempotent: the cleaning step applied to the wordlist it
\* wrote yields exactly the tokens that wordlist holds.
C6_CleaningIdempotent ==
    recleaned.done => recleaned.lines = SavedTokens

\* The cleaning rule as stated: strip the line, then remove one trailing
\* marker if there is one.
StripThenCutMarker(line) ==
    LET t == strip(line)
    IN IF EndsWith(t, Marker) THEN SubSeq(t, 1, Len(t) - Len(Marker)) ELSE t

NonBlankLines(text) ==
    LET ls == splitlines(text)
    IN SelectSeq(ls, LAMBDA l : \E i \in 1..Len(l) : l[i] \notin Whitespace)

\* C7: the cleaned wordlist holds no blank token and no token ending in the
\* marker, and its tokens are, in source order, the non-blank source lines
\* stripped and with one trailing marker removed, nothing else altered.
C7_CleanedTokens ==
    cache.exists =>
        /\ \A i \in 1..Len(cleaned) : cleaned[i] /= <<>> /\ ~EndsWith(cleaned[i], Marker)
        /\ LET src == NonBlankLines(raw_text)
           IN cleaned = [i \in 1..Len(src) |-> StripThenCutMarker(src[i])]

\* The part of C7 the code keeps: one token per non-blank line, in order,
\* none with surrounding whitespace.
C7_OneTokenPerLine ==
    cache.exists =>
        /\ Len(cleaned) = Len(NonBlankLines(raw_text))
        /\ \A i \in 1..Len(cleaned) : strip(cleaned[i]) = cleaned[i]

\* C8: a run that finds the cache file present and reuses it reads the
\* complete cleaned text, never an empty or partly written file.
C8_CacheAtomic ==
    \A r \in Runs :
        observed[r].read => observed[r].file = FileOf(join(cleaned_lines(raw_text)))

(***************************************************************************)
(* Interrupts, fatal checks and soft unavailability in a run (Spec).       *)
(***************************************************************************)
Interrupted == raised = "KeyboardInterrupt"

\* C11: an interrupt during an invocation stops the run without a final
\* report: the interrupted mode stays the last one invoked,
\* _consolidate_results is not executed and no _final.json exists.
C11_InterruptNoReport ==
    Interrupted =>
        /\ pc \in {"cleanup", "exited"}
        /\ invoked /= <<>> /\ invoked[Len(invoked)] = mode
        /\ consolidated = "no"
        /\ ~final_file.exists

\* An interrupted run that has ended: its first mode had left a usable
\* result file, the second was interrupted, the third was still to come.
C11_Witness ==
    /\ Interrupted
    /\ Ended
    /\ exit_code = 0
    /\ subdomain_mode
    /\ invoked = <<1, 2>>
    /\ Usable(1) /\ files[1].results /= <<>>
    /\ ~final_file.exists

(***************************************************************************)
(* Further properties of consolidation (SpecConsolidate).                  *)
(***************************************************************************)
Consolidated == pc = "cleanup" /\ consolidated /= "no"

\* C12: with no accepted per-mode file, or with accepted files that hold no
\* record carrying both status and length, no _final.json is written.
C12_NothingToReport ==
    (Consolidated /\ \A i \in 1..Len(Inputs) : ~HasPair(Inputs[i].rec))
        => ~final_file.exists

\* Consolidation ran over two accepted files whose records all lack a status
\* or a length, and left no report.
C12_Witness ==
    /\ Consolidated
    /\ Len(temp_ffuf_output_files) >= 2
    /\ Len(Inputs) >= 2
    /\ \E i, j \in 1..Len(Inputs) : Inputs[i].mode /= Inputs[j].mode
    /\ \A i \in 1..Len(Inputs) : IsDict(Inputs[i].rec) /\ ~HasPair(Inputs[i].rec)
    /\ ~final_file.exists

\* C13: a target URL with an empty host, or an executor that cannot be found,
\* halts the process with a failure indication before any probe: no executor
\* is spawned and no result or report file is written.
C13_FatalBeforeProbe ==
    ~Started =>
        /\ invoked = <<>>
        /\ \A m \in ModeIdx : proc[m].state = "none" /\ files[m].kind = "missing"
        /\ ~final_file.exists
        /\ consolidated = "no"
        /\ (Ended => exit_code = 1)

\* A run with a valid URL and a usable static wordlist that ended with
\* status 1 because the executor was not found.
C13_Witness ==
    /\ Ended
    /\ netloc /= ""
    /\ ~ffuf_found
    /\ args.static_wordlist = "file"
    /\ final_output_path /= "none"
    /\ raised = "SystemExit"
    /\ exit_code = 1

\* A wordlist source is there: a given path names a regular file; the
\* default list (no static argument) was found cached or was fetched.
StaticAvailable ==
    \/ args.static_wordlist = "file"
    \/ args.static_wordlist = "none" /\ static_wordlist_path = "cache"
SubdomainAvailable == args.subdomain_wordlist = "file"

InvokedMode(m) == \E i \in 1..Len(invoked) : invoked[i] = m

\* C14: an unavailable wordlist source is soft: nothing is raised, the modes
\* of that source are skipped and the modes of the other source are invoked.
C14_UnavailableIsSoft ==
    /\ (pc \in {"plan", "popen", "stream", "consolidate"}) => raised = "none"
    /\ ~StaticAvailable => (~InvokedMode(1) /\ ~InvokedMode(2))
    /\ ~SubdomainAvailable => ~InvokedMode(3)
    /\ (Ended /\ Started /\ ~Interrupted) =>
          /\ raised = "none"
          /\ StaticAvailable => (InvokedMode(1) /\ InvokedMode(2))
          /\ SubdomainAvailable => InvokedMode(3)

\* An ended run without a static argument whose default list could not be
\* fetched: the static modes were skipped, the subdomain mode ran.
C14_Witness ==
    /\ Ended
    /\ raised = "none"
    /\ args.static_wordlist = "none"
    /\ static_wordlist_path = "none"
    /\ ~cache.exists
    /\ args.subdomain_wordlist = "file"
    /\ invoked = <<3>>

\* A tracked file is malformed when json.load cannot use it or when one of
\* its results is no key/value object.
Unparsable(file) == file.kind /= "doc"
Malformed(file) ==
    \/ Unparsable(file)
    \/ \E i \in 1..Len(file.results) : ~IsDict(file.results[i])

WellFormedTracked ==
    SelectSeq(temp_ffuf_output_files, LAMBDA m : ~Malformed(files[m]))
ParsableTracked ==
    SelectSeq(temp_ffuf_output_files, LAMBDA m : ~Unparsable(files[m]))

\* C17: a malformed tracked file is skipped as a whole: the report is the one
\* the other tracked files give when the malformed files are absent (or, the
\* write failing, no report), so a malformed file contributes no record and
\* claims no dedup key.
C17_MalformedSkippedWhole ==
    Consolidated =>
        final_file \in {NoReport,
                        consolidate_results(TRUE, WellFormedTracked, files, NoReport)}

\* The part of C17 that holds: consolidation never raises, and a file that
\* json.load cannot use is skipped as a whole.
C17_UnparsableSkipped ==
    Consolidated =>
        /\ raised = "none"
        /\ final_file \in {NoReport,
                           consolidate_results(TRUE, ParsableTracked, files, NoReport)}

\* C18: every record of a written report is a record of some tracked file,
\* unchanged, and has both a status and a length; a record lacking either is
\* not in the report and blocks nothing: every pair that occurs in complete
\* records of the (well-formed) tracked files is in the report.
C18_ReportRecordsComplete ==
    ReportWritten =>
        LET out == final_file.results
        IN /\ \A j \in 1..Len(out) :
                /\ HasPair(out[j])
                /\ \E i \in 1..Len(Inputs) : out[j] = Inputs[i].rec
           /\ InputsWellFormed =>
                \A i \in 1..Len(Inputs) :
                    HasPair(Inputs[i].rec) =>
                        \E j \in 1..Len(out) : SamePair(out[j], Inputs[i].rec)

\* A report written from files where a record without a length comes before
\* a complete record of the same status: only the complete one is reported.
C18_Witness ==
    /\ ReportWritten
    /\ InputsWellFormed
    /\ \E i, j \in 1..Len(Inputs) :
         /\ i < j
         /\ DOMAIN Inputs[i].rec = {"status", "host"}
         /\ HasPair(Inputs[j].rec)
         /\ Inputs[j].rec.status = Inputs[i].rec.status
         /\ \E k \in 1..Len(final_file.results) : final_file.results[k] = Inputs[j].rec
         /\ \A k \in 1..Len(final_file.results) : final_file.results[k] /= Inputs[i].rec

\* C19: once main has ended, no per-mode result file of the run is on disk.
C19_TempFilesRemoved ==
    Ended => \A m \in ModeIdx : files[m].kind = "missing"

\* The part of C19 that holds: every exit path of a started run goes through
\* cleanup, which leaves the tracked list empty.
C19_CleanupOnEveryPath ==
    (Ended /\ Started) => temp_ffuf_output_files = <<>>

\* C20: without an output base path no invocation gets an output path, no
\* per-mode file is written or tracked and no report is written; and in every
\* run the tracked list holds each mode's path at most once, in mode order.
C20_NoOutputNoTracking ==
    /\ final_output_path = "none" =>
          /\ \A m \in ModeIdx : ~proc[m].out /\ files[m].kind = "missing"
          /\ temp_ffuf_output_files = <<>>
          /\ ~final_file.exists
    /\ \A i, j \in 1..Len(temp_ffuf_output_files) :
          i < j => temp_ffuf_output_files[i] < temp_ffuf_output_files[j]

\* A run without an output base in which all three executors were waited
\* for and returned 0, after _consolidate_results.
C20_Witness ==
    /\ final_output_path = "none"
    /\ Consolidated
    /\ invoked = <<1, 2, 3>>
    /\ \A m \in ModeIdx : proc[m].waited /\ proc[m].rc = 0
    /\ temp_ffuf_output_files = <<>>

(***************************************************************************)
(* Properties of the target and the command line (SpecUrl, SpecBuild).     *)
(***************************************************************************)
\* What follows the last "@" of a str, all of it without one.
RECURSIVE AfterLastAt(_)
AfterLastAt(str) ==
    IF \E i \in 1..Len(str) : str[i] = "@"
    THEN AfterLastAt(Drop(str, CHOOSE i \in 1..Len(str) : str[i] = "@"))
    ELSE str

\* The host a URL names: its authority without user information and port.
HostOf(u) == split_first(AfterLastAt(urlparse_netloc(add_scheme(u))), ":")

\* C13 (target half): a target URL that names no host ends the process in
\* the constructor; it is never accepted and no command is built for it.
C13_EmptyHostHalts ==
    (bstate /= "new" /\ HostOf(url) = <<>>) => bstate = "rejected"

\* The user's tokens of a built command: what follows the planner's part.
PlannerLen == IF temp_out THEN 14 ELSE 10
UserPart(m) == Drop(cmds[m], PlannerLen)
Built(m) == bstate = "accepted" /\ cmds[m] /= <<>>

\* The user's words without each conflicting option as a whole: -mc, -o and
\* -of go with the value that follows them (a word that is no option name),
\* -s goes alone.
IsOptionName(w) == w \in {"-mc", "-o", "-of", "-s", "-t"}
RECURSIVE WithoutConflicting(_)
WithoutConflicting(ws) ==
    IF ws = <<>> THEN <<>>
    ELSE IF Head(ws) \in {"-mc", "-o", "-of"}
         THEN IF Len(ws) >= 2 /\ ~IsOptionName(ws[2])
              THEN WithoutConflicting(Drop(ws, 2))
              ELSE WithoutConflicting(Tail(ws))
         ELSE IF Head(ws) = "-s" THEN WithoutConflicting(Tail(ws))
              ELSE <<Word(Head(ws))>> \o WithoutConflicting(Tail(ws))

\* The planner's own options of a built command.
PlannerOptions(m) ==
    /\ SubSeq(cmds[m], 6, 8) = <<Word("-mc"), Word("match_codes"), Word("-s")>>
    /\ temp_out => SubSeq(cmds[m], 11, 14) =
                      <<Word("-o"), Word(TempNames[m]), Word("-of"), Word("json")>>
    /\ Len(cmds[m]) >= PlannerLen

\* C15: a built command carries the planner's match codes, output path,
\* output format and silent flag, and of the user's option string exactly the
\* tokens of the non-conflicting options, in order: each conflicting option is
\* gone as a whole, its value included.
C15_ConflictingRemovedWhole ==
    \A m \in ModeIdx :
        Built(m) =>
            /\ PlannerOptions(m)
            /\ UserPart(m) = WithoutConflicting(split(ffuf_options))

\* The part of C15 that holds: the planner's options are in place, the four
\* flag tokens of the user are gone and every other token of the user is
\* passed on, in order.
C15_FlagTokensDropped ==
    \A m \in ModeIdx :
        Built(m) =>
            /\ PlannerOptions(m)
            /\ \A i \in 1..Len(UserPart(m)) :
                 UserPart(m)[i].s \notin {"-mc", "-o", "-of", "-s"}
            /\ UserPart(m) =
                 LET kept == SelectSeq(split(ffuf_options),
                                       LAMBDA w : w \notin {"-mc", "-o", "-of", "-s"})
                 IN [i \in 1..Len(kept) |-> Word(kept[i])]

\* The header argument of a built command (it follows "-H").
HeaderOf(m) == cmds[m][10]

\* C16: for an accepted URL the static_append command has the header
\* "Host: FUZZ." followed by the URL's host (no user information, no port);
\* the static and subdomain commands have "Host: FUZZ".
C16_HeaderFromHost ==
    \A m \in ModeIdx :
        Built(m) =>
            /\ cmds[m][9] = Word("-H")
            /\ HeaderOf(m) = IF m = 2 THEN Arg("Host: FUZZ.", HostOf(url))
                             ELSE Word("Host: FUZZ")

\* The part of C16 that holds: the base domain of the static_append header
\* holds no ":" (so no port), and the other two headers are "Host: FUZZ".
C16_PortStripped ==
    \A m \in ModeIdx :
        Built(m) =>
            /\ cmds[m][9] = Word("-H")
            /\ m = 2 => /\ HeaderOf(m).s = "Host: FUZZ."
                        /\ \A i \in 1..Len(HeaderOf(m).v) : HeaderOf(m).v[i] /= ":"
            /\ m /= 2 => HeaderOf(m) = Word("Host: FUZZ")

====
